---- MODULE Spec2Model ----
(***************************************************************************)
(* util/server.py of redeye: an HTTP server whose request handler logs one *)
(* Common Log Format line per logged event to standard output.             *)
(*                                                                         *)
(* Strings are sequences of one-character strings, so that formatting,     *)
(* line splitting and timestamp decoding are computed character by         *)
(* character.  The clock is a count of seconds since the epoch plus a      *)
(* sub-second part.                                                        *)
(***************************************************************************)
EXTENDS Integers, Sequences, FiniteSets, TLC

VARIABLES
    pc,         \* position of the main script (lines 35-42)
    pending,    \* exception travelling through the finally clause
    exitStatus, \* exit status of the process, -1 while it runs
    sock,       \* the server's listening socket
    stdout,     \* characters written to sys.stdout
    stdoutOk,   \* whether sys.stdout accepts a write
    stderr,     \* lines printed to sys.stderr
    boot,       \* epoch second at which the script started
    uptime,     \* clock ticks since boot
    tz,         \* offset of the process's local time zone, in seconds
    threads,    \* handler threads of the hosting server
    budget,     \* log events the clients will still cause
    traffic,    \* the (client, format, args) calls the server may make
    h,          \* per handler thread: the frame of log_message
    events,     \* history: one record per log_message call, in call order
    sigint      \* history: whether a KeyboardInterrupt has been raised

vars == <<pc, pending, exitStatus, sock, stdout, stdoutOk, stderr,
          boot, uptime, tz, threads, budget, traffic, h, events, sigint>>

----------------------------------------------------------------------------
(* Bounds of the model *)

MaxEvents == 2
MaxTicks == 2
NumWorkers == 2
TicksPerSec == 2

----------------------------------------------------------------------------
(* Strings *)

Digits == <<"0", "1", "2", "3", "4", "5", "6", "7", "8", "9">>

RECURSIVE Dec(_)
\* str(n) for an int n >= 0
Dec(n) ==
    IF n < 10 THEN <<Digits[n + 1]>>
    ELSE Dec(n \div 10) \o <<Digits[(n % 10) + 1]>>

\* zero-padded decimal of width w (the %d, %H, %M, %S and %Y fields)
RECURSIVE Pad(_, _)
Pad(n, w) ==
    IF w <= 1 THEN Dec(n)
    ELSE IF Len(Dec(n)) >= w THEN Dec(n)
    ELSE <<"0">> \o Pad(n, w - 1)

StrArg(s) == [t |-> "str", s |-> s, n |-> 0]
IntArg(n) == [t |-> "int", s |-> <<>>, n |-> n]

\* str(v) as applied by the %s conversion
StrOf(v) == IF v.t = "int" THEN Dec(v.n) ELSE v.s

----------------------------------------------------------------------------
(* The clock *)

Now == [sec |-> boot + (uptime \div TicksPerSec), sub |-> uptime % TicksPerSec]

MonthAbbr ==
    << <<"J", "a", "n">>, <<"F", "e", "b">>, <<"M", "a", "r">>,
       <<"A", "p", "r">>, <<"M", "a", "y">>, <<"J", "u", "n">>,
       <<"J", "u", "l">>, <<"A", "u", "g">>, <<"S", "e", "p">>,
       <<"O", "c", "t">>, <<"N", "o", "v">>, <<"D", "e", "c">> >>

\* broken-down time of an epoch second (what gmtime computes)
BrokenDown(sec) ==
    LET days == sec \div 86400
        rem  == sec % 86400
        z    == days + 719468
        era  == z \div 146097
        doe  == z - era * 146097
        yoe  == (doe - (doe \div 1460) + (doe \div 36524) - (doe \div 146096)) \div 365
        doy  == doe - (365 * yoe + (yoe \div 4) - (yoe \div 100))
        mp   == (5 * doy + 2) \div 153
        mon  == IF mp < 10 THEN mp + 3 ELSE mp - 9
    IN  [year   |-> yoe + era * 400 + (IF mon <= 2 THEN 1 ELSE 0),
         month  |-> mon,
         day    |-> doy - ((153 * mp + 2) \div 5) + 1,
         hour   |-> rem \div 3600,
         minute |-> (rem % 3600) \div 60,
         second |-> rem % 60]

localnow == BrokenDown(Now.sec + tz)

roundednow == BrokenDown(Now.sec + (IF 2 * Now.sub >= TicksPerSec THEN 1 ELSE 0))

\* datetime.utcnow(): the UTC reading of the clock, sub-second part dropped
\* by the format below
utcnow == BrokenDown(Now.sec)

RECURSIVE strftime(_, _)
\* now.strftime(fmt) for the directives the handler uses
strftime(now, fmt) ==
    IF fmt = <<>> THEN <<>>
    ELSE IF fmt[1] = "%" /\ Len(fmt) >= 2
    THEN LET rest == strftime(now, SubSeq(fmt, 3, Len(fmt)))
             d == fmt[2]
         IN  CASE d = "d" -> Pad(now.day, 2) \o rest
               [] d = "b" -> MonthAbbr[now.month] \o rest
               [] d = "Y" -> Pad(now.year, 4) \o rest
               [] d = "H" -> Pad(now.hour, 2) \o rest
               [] d = "M" -> Pad(now.minute, 2) \o rest
               [] d = "S" -> Pad(now.second, 2) \o rest
               [] OTHER   -> <<"%", d>> \o rest
    ELSE <<fmt[1]>> \o strftime(now, Tail(fmt))

\* '%d/%b/%Y:%H:%M:%S +0000'
TimeFormat ==
    <<"%", "d", "/", "%", "b", "/", "%", "Y", ":", "%", "H", ":",
      "%", "M", ":", "%", "S", " ", "+", "0", "0", "0", "0">>

log_date_time_string == strftime(utcnow, TimeFormat)

----------------------------------------------------------------------------
(* printf-style formatting: format % args *)

Raise(e) == [ok |-> FALSE, out |-> <<>>, err |-> e]

Return(s) == [ok |-> TRUE, out |-> s, err |-> "none"]

\* the converted text s followed by the conversion of the rest
Then(s, r) == IF r.ok THEN Return(s \o r.out) ELSE r

RECURSIVE Format(_, _)
\* fmt % args, args a tuple: conversions consume the arguments from left to
\* right; a missing, surplus or ill-typed argument raises TypeError, an
\* unknown or cut-off conversion ValueError
Format(fmt, args) ==
    IF fmt = <<>>
    THEN IF args = <<>> THEN Return(<<>>) ELSE Raise("TypeError")
    ELSE IF fmt[1] # "%" THEN Then(<<fmt[1]>>, Format(Tail(fmt), args))
    ELSE IF Len(fmt) < 2 THEN Raise("ValueError")
    ELSE LET c    == fmt[2]
             rest == SubSeq(fmt, 3, Len(fmt))
         IN  CASE c = "%" -> Then(<<"%">>, Format(rest, args))
               [] c = "s" ->
                    IF args = <<>> THEN Raise("TypeError")
                    ELSE Then(StrOf(Head(args)), Format(rest, Tail(args)))
               [] c = "d" ->
                    IF args = <<>> THEN Raise("TypeError")
                    ELSE IF Head(args).t # "int" THEN Raise("TypeError")
                    ELSE Then(Dec(Head(args).n), Format(rest, Tail(args)))
               [] OTHER ->
                    IF args = <<>> THEN Raise("TypeError") ELSE Raise("ValueError")

----------------------------------------------------------------------------
(* What the hosting server passes to the log hook *)

\* client_address of a connection: (host, port)
host1 == <<"1", "2", "7", ".", "0", ".", "0", ".", "1">>

host2 == <<"1", "2", "7", ".", "0", ".", "0", ".", "2">>

Clients == {<<host1, 51234>>, <<host2, 51235>>}

\* '"%s" %s %s', the template of log_request
RequestFormat == <<"\"", "%", "s", "\"", " ", "%", "s", " ", "%", "s">>

\* 'code %d, message %s', the template of log_error
ErrorFormat ==
    <<"c", "o", "d", "e", " ", "%", "d", ",", " ", "m", "e", "s", "s", "a", "g", "e", " ", "%", "s">>

\* 'idle 100%%', a template without arguments
PlainFormat == <<"i", "d", "l", "e", " ", "1", "0", "0", "%", "%">>

Templates == {RequestFormat, ErrorFormat, PlainFormat}

\* ('GET / HTTP/1.1', '200', '1024')
RequestArgs ==
    << StrArg(<<"G", "E", "T", " ", "/", " ", "H", "T", "T", "P", "/", "1", ".", "1">>),
       StrArg(<<"2", "0", "0">>),
       StrArg(<<"1", "0", "2", "4">>) >>

\* (404, 'Not Found')
ErrorArgs ==
    << IntArg(404), StrArg(<<"N", "o", "t", " ", "F", "o", "u", "n", "d">>) >>

ArgTuples == {<<>>, RequestArgs, ErrorArgs}

\* self.address_string(): the host of the client address
address_string(client) == client[1]

LineFormat_oneDash ==
    <<"%", "s", " ", "-", " ", "[", "%", "s", "]", " ", "%", "s", "\n">>

\* "%s - - [%s] %s\n"
LineFormat ==
    <<"%", "s", " ", "-", " ", "-", " ", "[", "%", "s", "]", " ", "%", "s", "\n">>

Idle == [pc |-> "idle", id |-> 0, addr |-> <<>>, ts |-> <<>>, msg |-> <<>>]

InFlight == {w \in threads : h[w].pc # "idle"}

----------------------------------------------------------------------------
(* log_message, one step per evaluated argument (lines 20-25) *)

\* the server calls log_message(format, *args) on a handler; the first
\* argument of the outer format, self.address_string(), is evaluated
Call(w) ==
    /\ pc = "serving"
    /\ h[w].pc = "idle"
    /\ budget > 0
    /\ \E call \in traffic :
         /\ events' = Append(events,
                [client |-> call[1], format |-> call[2], args |-> call[3],
                 ts |-> <<>>, sec |-> 0, outcome |-> "pending", calls |-> <<>>])
         /\ h' = [h EXCEPT ![w] =
                [pc |-> "time", id |-> Len(events) + 1,
                 addr |-> address_string(call[1]), ts |-> <<>>, msg |-> <<>>]]
    /\ budget' = budget - 1
    /\ UNCHANGED <<pc, pending, exitStatus, sock, stdout, stdoutOk, stderr,
                   boot, uptime, tz, threads, traffic, sigint>>

\* the second argument: self.log_date_time_string()
LogDateTimeString(w) ==
    /\ pc = "serving"
    /\ h[w].pc = "time"
    /\ h' = [h EXCEPT ![w].pc = "render", ![w].ts = log_date_time_string]
    /\ events' = [events EXCEPT ![h[w].id].ts = log_date_time_string,
                                ![h[w].id].sec = Now.sec]
    /\ UNCHANGED <<pc, pending, exitStatus, sock, stdout, stdoutOk, stderr,
                   boot, uptime, tz, threads, budget, traffic, sigint>>

Render_default(w) ==
    /\ pc = "serving"
    /\ h[w].pc = "render"
    /\ LET e == events[h[w].id]
           r == Format(e.format, e.args)
       IN  h' = [h EXCEPT ![w].pc = "write",
                          ![w].msg = IF r.ok THEN r.out ELSE e.format]
    /\ UNCHANGED <<pc, pending, exitStatus, sock, stdout, stdoutOk, stderr,
                   boot, uptime, tz, threads, budget, traffic, events, sigint>>

\* the third argument: format % args; its exception leaves log_message
\* before sys.stdout.write is called
Render(w) ==
    /\ pc = "serving"
    /\ h[w].pc = "render"
    /\ LET e == events[h[w].id]
           r == Format(e.format, e.args)
       IN  IF r.ok
           THEN /\ h' = [h EXCEPT ![w].pc = "write", ![w].msg = r.out]
                /\ UNCHANGED events
           ELSE /\ h' = [h EXCEPT ![w] = Idle]
                /\ events' = [events EXCEPT ![h[w].id].outcome = r.err]
    /\ UNCHANGED <<pc, pending, exitStatus, sock, stdout, stdoutOk, stderr,
                   boot, uptime, tz, threads, budget, traffic, sigint>>

\* the line log_message passes to sys.stdout.write
Line(w) ==
    Format(LineFormat, <<StrArg(h[w].addr), StrArg(h[w].ts), StrArg(h[w].msg)>>).out

Write_prepend(w) ==
    /\ pc = "serving"
    /\ h[w].pc = "write"
    /\ stdout' = IF stdoutOk THEN Line(w) \o stdout ELSE stdout
    /\ events' = [events EXCEPT
            ![h[w].id].calls = Append(@, Line(w)),
            ![h[w].id].outcome = IF stdoutOk THEN "ok" ELSE "OSError"]
    /\ h' = [h EXCEPT ![w] = Idle]
    /\ UNCHANGED <<pc, pending, exitStatus, sock, stdoutOk, stderr,
                   boot, uptime, tz, threads, budget, traffic, sigint>>

Write_twoCalls(w) ==
    /\ pc = "serving"
    /\ h[w].pc \in {"write", "newline"}
    /\ LET data == IF h[w].pc = "write"
                   THEN SubSeq(Line(w), 1, Len(Line(w)) - 1)
                   ELSE <<"\n">>
       IN  /\ stdout' = IF stdoutOk THEN stdout \o data ELSE stdout
           /\ events' = [events EXCEPT
                   ![h[w].id].calls = Append(@, data),
                   ![h[w].id].outcome =
                       IF ~stdoutOk THEN "OSError"
                       ELSE IF h[w].pc = "write" THEN "pending" ELSE "ok"]
           /\ h' = [h EXCEPT ![w] =
                   IF stdoutOk /\ h[w].pc = "write"
                   THEN [h[w] EXCEPT !.pc = "newline"]
                   ELSE Idle]
    /\ UNCHANGED <<pc, pending, exitStatus, sock, stdoutOk, stderr,
                   boot, uptime, tz, threads, budget, traffic, sigint>>

Write_retry(w) ==
    /\ pc = "serving"
    /\ h[w].pc = "write"
    /\ stdout' = IF stdoutOk THEN stdout \o Line(w) ELSE stdout
    /\ events' = [events EXCEPT
            ![h[w].id].calls = IF stdoutOk THEN Append(@, Line(w))
                               ELSE @ \o <<Line(w), Line(w)>>,
            ![h[w].id].outcome = IF stdoutOk THEN "ok" ELSE "OSError"]
    /\ h' = [h EXCEPT ![w] = Idle]
    /\ UNCHANGED <<pc, pending, exitStatus, sock, stdoutOk, stderr,
                   boot, uptime, tz, threads, budget, traffic, sigint>>

\* sys.stdout.write(line): one call with the whole line; it appends the line
\* to the stream or raises, and log_message returns or lets the error out
Write(w) ==
    /\ pc = "serving"
    /\ h[w].pc = "write"
    /\ stdout' = IF stdoutOk THEN stdout \o Line(w) ELSE stdout
    /\ events' = [events EXCEPT
            ![h[w].id].calls = Append(@, Line(w)),
            ![h[w].id].outcome = IF stdoutOk THEN "ok" ELSE "OSError"]
    /\ h' = [h EXCEPT ![w] = Idle]
    /\ UNCHANGED <<pc, pending, exitStatus, sock, stdoutOk, stderr,
                   boot, uptime, tz, threads, budget, traffic, sigint>>

----------------------------------------------------------------------------
(* The main script (lines 28-42) *)

host == <<"l", "o", "c", "a", "l", "h", "o", "s", "t">>

port == 8000

\* "Starting server on {}:{}".format(host, port)
StartingLine ==
    <<"S", "t", "a", "r", "t", "i", "n", "g", " ", "s", "e", "r", "v", "e", "r", " ", "o", "n", " ">>
        \o host \o <<":">> \o Dec(port)

ExitingLine ==
    <<"E", "x", "i", "t", "i", "n", "g", " ", "o", "n", " ", "S", "I", "G", "I", "N", "T">>

\* the exception unwinds the log_message frames that are in progress
Unwind(e) ==
    /\ h' = [w \in threads |-> Idle]
    /\ events' = [i \in DOMAIN events |->
            IF \E w \in InFlight : h[w].id = i
            THEN [events[i] EXCEPT !.outcome = e]
            ELSE events[i]]

StartNotice_stdout ==
    /\ pc = "start"
    /\ stdout' = stdout \o StartingLine \o <<"\n">>
    /\ pc' = "serving"
    /\ UNCHANGED <<pending, exitStatus, sock, stderr, stdoutOk,
                   boot, uptime, tz, threads, budget, traffic, h, events, sigint>>

\* line 36: print(..., file=sys.stderr)
StartNotice ==
    /\ pc = "start"
    /\ stderr' = Append(stderr, StartingLine)
    /\ pc' = "serving"
    /\ UNCHANGED <<pending, exitStatus, sock, stdout, stdoutOk,
                   boot, uptime, tz, threads, budget, traffic, h, events, sigint>>

\* KeyboardInterrupt raised inside the try block (lines 36-37): control
\* passes to the except clause
Interrupt ==
    /\ pc \in {"start", "serving"}
    /\ pc' = "except"
    /\ sigint' = TRUE
    /\ Unwind("KeyboardInterrupt")
    /\ UNCHANGED <<pending, exitStatus, sock, stdout, stdoutOk, stderr,
                   boot, uptime, tz, threads, budget, traffic>>

\* serve_forever() raises an exception that no except clause matches
ServeError ==
    /\ pc = "serving"
    /\ pc' = "finally"
    /\ pending' = "Error"
    /\ Unwind("Error")
    /\ UNCHANGED <<exitStatus, sock, stdout, stdoutOk, stderr,
                   boot, uptime, tz, threads, budget, traffic, sigint>>

\* serve_forever() returns and the try block is left at its end (nothing in
\* the script calls shutdown(); the path is the one try/finally provides for)
ServeReturn ==
    /\ pc = "serving"
    /\ InFlight = {}
    /\ pc' = "finally"
    /\ UNCHANGED <<pending, exitStatus, sock, stdout, stdoutOk, stderr,
                   boot, uptime, tz, threads, budget, traffic, h, events, sigint>>

\* line 39: print("Exiting on SIGINT", file=sys.stderr)
ExitNotice ==
    /\ pc = "except"
    /\ stderr' = Append(stderr, ExitingLine)
    /\ pc' = "sysexit"
    /\ UNCHANGED <<pending, exitStatus, sock, stdout, stdoutOk,
                   boot, uptime, tz, threads, budget, traffic, h, events, sigint>>

SysExit_status1 ==
    /\ pc = "sysexit"
    /\ pending' = "Error"
    /\ pc' = "finally"
    /\ UNCHANGED <<exitStatus, sock, stdout, stdoutOk, stderr,
                   boot, uptime, tz, threads, budget, traffic, h, events, sigint>>

\* line 40: sys.exit(0) raises SystemExit(0), which runs the finally clause
SysExit ==
    /\ pc = "sysexit"
    /\ pending' = "SystemExit0"
    /\ pc' = "finally"
    /\ UNCHANGED <<exitStatus, sock, stdout, stdoutOk, stderr,
                   boot, uptime, tz, threads, budget, traffic, h, events, sigint>>

ServerClose_unlessRaised ==
    /\ pc = "finally"
    /\ sock' = IF pending = "none" THEN "closed" ELSE sock
    /\ pc' = "exited"
    /\ exitStatus' = IF pending = "Error" THEN 1 ELSE 0
    /\ UNCHANGED <<pending, stdout, stdoutOk, stderr,
                   boot, uptime, tz, threads, budget, traffic, h, events, sigint>>

\* lines 41-42: server.server_close(), then the pending exception, if any,
\* ends the process
ServerClose ==
    /\ pc = "finally"
    /\ sock' = "closed"
    /\ pc' = "exited"
    /\ exitStatus' = IF pending = "Error" THEN 1 ELSE 0
    /\ UNCHANGED <<pending, stdout, stdoutOk, stderr,
                   boot, uptime, tz, threads, budget, traffic, h, events, sigint>>

----------------------------------------------------------------------------
(* The environment *)

Tick ==
    /\ pc # "exited"
    /\ uptime < MaxTicks
    /\ uptime' = uptime + 1
    /\ UNCHANGED <<pc, pending, exitStatus, sock, stdout, stdoutOk, stderr,
                   boot, tz, threads, budget, traffic, h, events, sigint>>

\* the reader of standard output goes away, or comes back
StdoutBreaks ==
    /\ pc # "exited"
    /\ stdoutOk
    /\ stdoutOk' = FALSE
    /\ UNCHANGED <<pc, pending, exitStatus, sock, stdout, stderr,
                   boot, uptime, tz, threads, budget, traffic, h, events, sigint>>

StdoutRecovers ==
    /\ pc # "exited"
    /\ ~stdoutOk
    /\ stdoutOk' = TRUE
    /\ UNCHANGED <<pc, pending, exitStatus, sock, stdout, stderr,
                   boot, uptime, tz, threads, budget, traffic, h, events, sigint>>

----------------------------------------------------------------------------
(* Specifications *)

Zones == {0 - 18000, 0, 19800}

\* 01/Jan/1970:00:00:00, 31/Dec/1999:23:59:59, 28/Feb/2000:23:59:59,
\* 29/Feb/2000:23:59:59, 28/Feb/2023:23:59:59, 09/Sep/2001:01:46:39,
\* 31/Dec/2024:23:59:59, 03/Nov/2026:21:28:07, 30/Jun/2037:12:00:09
Instants ==
    {0, 946684799, 951782399, 951868799, 1677628799, 999999999,
     1735689599, 1793741287, 2129976009}

\* any template with any argument tuple
AnyTraffic ==
    {<<c, f, a>> : c \in Clients, f \in Templates, a \in ArgTuples}

\* what http.server passes for two clients: log_request's call for both,
\* log_error's call, and the request template called with log_error's two
\* arguments
ServerTraffic ==
    {<<c, RequestFormat, RequestArgs>> : c \in Clients}
        \cup {<<c, ErrorFormat, ErrorArgs>> : c \in {<<host2, 51235>>}}
        \cup {<<c, RequestFormat, ErrorArgs>> : c \in {<<host1, 51234>>}}

Start(ts, n) ==
    /\ pc = "start"
    /\ pending = "none"
    /\ exitStatus = 0 - 1
    /\ sock = "open"
    /\ stdout = <<>>
    /\ stdoutOk = TRUE
    /\ stderr = <<>>
    /\ uptime = 0
    /\ threads = ts
    /\ budget = n
    /\ h = [w \in ts |-> Idle]
    /\ events = <<>>
    /\ sigint = FALSE

\* HTTPServer handles one request at a time, on the main thread
Init ==
    /\ Start({1}, MaxEvents)
    /\ traffic = ServerTraffic
    /\ boot = 1735689599
    /\ tz = 0 - 18000

Next ==
    \/ \E w \in threads : Call(w)
    \/ \E w \in threads : LogDateTimeString(w)
    \/ \E w \in threads : Render(w)
    \/ \E w \in threads : Write(w)
    \/ StartNotice
    \/ Interrupt
    \/ ServeError
    \/ ServeReturn
    \/ ExitNotice
    \/ SysExit
    \/ ServerClose
    \/ Tick
    \/ StdoutBreaks
    \/ StdoutRecovers

Spec == Init /\ [][Next]_vars

\* one call of the log hook, with any arguments at any instant
InitHook ==
    /\ Start({1}, 1)
    /\ traffic = AnyTraffic
    /\ boot \in Instants
    /\ tz \in Zones

SpecHook == InitHook /\ [][Next]_vars

\* successful requests of both clients
RequestTraffic == {<<c, RequestFormat, RequestArgs>> : c \in Clients}

\* the main thread runs on: a statement of the except and finally clauses
\* that can execute does execute
FairSpec ==
    Spec /\ WF_vars(ExitNotice) /\ WF_vars(SysExit) /\ WF_vars(ServerClose)

\* a hosting server that runs one handler thread per connection
InitConc ==
    /\ Start(1..NumWorkers, MaxEvents)
    /\ traffic = RequestTraffic
    /\ boot = 1735689599
    /\ tz = 0 - 18000

SpecConc == InitConc /\ [][Next]_vars

----------------------------------------------------------------------------
(* Vocabulary of the properties *)

RECURSIVE Flatten(_)
Flatten(ss) == IF ss = <<>> THEN <<>> ELSE Head(ss) \o Flatten(Tail(ss))

\* the number of "%" immediately before position i
RECURSIVE PercentRun(_, _)
PercentRun(fmt, i) ==
    IF i > 1 /\ fmt[i - 1] = "%" THEN 1 + PercentRun(fmt, i - 1) ELSE 0

\* position i opens a directive ("%%" or a conversion)
Opens(fmt, i) == fmt[i] = "%" /\ PercentRun(fmt, i) % 2 = 0

\* the positions of the conversions of a template, "%%" not being one
Conversions(fmt) ==
    {i \in 1..(Len(fmt) - 1) : Opens(fmt, i) /\ fmt[i + 1] \in {"s", "d"}}

\* arity and types of the arguments match the template
Matches(fmt, args) ==
    LET conv == Conversions(fmt)
    IN  /\ \A i \in 1..Len(fmt) :
              Opens(fmt, i) => i < Len(fmt) /\ fmt[i + 1] \in {"s", "d", "%"}
        /\ Cardinality(conv) = Len(args)
        /\ \A i \in conv :
              fmt[i + 1] = "d" => args[Cardinality({j \in conv : j <= i})].t = "int"

\* the template with the arguments substituted positionally: the k-th
\* conversion from the left is replaced by the text of the k-th argument
Substituted(fmt, args) ==
    LET conv == Conversions(fmt)
    IN  Flatten([i \in 1..Len(fmt) |->
            IF i \in conv THEN StrOf(args[Cardinality({j \in conv : j <= i})])
            ELSE IF Opens(fmt, i) THEN <<"%">>
            ELSE IF i > 1 /\ Opens(fmt, i - 1) THEN <<>>
            ELSE <<fmt[i]>>])

\* '<clientAddress> - - [<timestamp>] <renderedMessage>\n'
ClfLine(addr, ts, msg) ==
    addr \o <<" ", "-", " ", "-", " ", "[">> \o ts \o <<"]", " ">> \o msg \o <<"\n">>

\* the line event e is to produce
LineOf(e) == ClfLine(e.client[1], e.ts, Substituted(e.format, e.args))

Finished(e) == e.outcome \in {"ok", "TypeError", "ValueError", "OSError"}

RECURSIVE FirstAt(_, _, _)
\* the first position from i on where s has the character ch, else 0
FirstAt(s, ch, i) ==
    IF i > Len(s) THEN 0 ELSE IF s[i] = ch THEN i ELSE FirstAt(s, ch, i + 1)

\* the stream split at its newlines (a last piece without newline included)
LinesOf(s) ==
    LET nl  == {i \in 1..Len(s) : s[i] = "\n"}
        n   == Cardinality(nl)
        cut == [k \in 0..n |->
                   IF k = 0 THEN 0
                   ELSE CHOOSE i \in nl : Cardinality({j \in nl : j <= i}) = k]
    IN  [k \in 1..n |-> SubSeq(s, cut[k - 1] + 1, cut[k] - 1)]
            \o (IF cut[n] < Len(s) THEN <<SubSeq(s, cut[n] + 1, Len(s))>> ELSE <<>>)

EndsAtLineBreak(s) == s = <<>> \/ s[Len(s)] = "\n"

\* ^\S+ - - \[[^\]]+\] .*$ : the client field ends at the first space, the
\* timestamp field at the first "]" after the "["
MatchesClf(line) ==
    LET a == FirstAt(line, " ", 1)
        b == FirstAt(line, "]", a + 6)
    IN  /\ a >= 2
        /\ a + 5 <= Len(line)
        /\ SubSeq(line, a, a + 5) = <<" ", "-", " ", "-", " ", "[">>
        /\ b > a + 6
        /\ b < Len(line)
        /\ line[b + 1] = " "
        /\ \A i \in 1..Len(line) : line[i] # "\n"

IsOk(e) == e.outcome = "ok"

\* the events whose line was written, in the order of their calls
OkEvents == SelectSeq(events, IsOk)

\* the lines of those events, one after the other
OkText == Flatten([k \in 1..Len(OkEvents) |-> LineOf(OkEvents[k])])

----------------------------------------------------------------------------
\* C1: one call of log_message with matching template and arguments, of any
\* arity, writes to standard output exactly the line
\* '<clientAddress> - - [<timestamp>] <renderedMessage>\n', the timestamp
\* being the one log_date_time_string returned during the call.
LogMessageWritesClfLine ==
    \A i \in DOMAIN events :
        LET e == events[i]
        IN  Matches(e.format, e.args) /\ Finished(e) =>
              /\ e.calls = <<LineOf(e)>>
              /\ e.outcome = "ok" => stdout = LineOf(e)
              /\ e.outcome # "ok" => e.outcome = "OSError" /\ stdout = <<>>

\* a call without arguments has written its line
LogMessageWritesClfLine_witness ==
    /\ Len(events) = 1
    /\ events[1].args = <<>>
    /\ events[1].outcome = "ok"
    /\ stdout # <<>>

----------------------------------------------------------------------------
(* Reading a timestamp back *)

IsDigit(ch) == \E d \in 1..10 : Digits[d] = ch

Val(ch) == CHOOSE d \in 0..9 : Digits[d + 1] = ch

RECURSIVE Num(_)
Num(s) == IF s = <<>> THEN 0 ELSE 10 * Num(SubSeq(s, 1, Len(s) - 1)) + Val(s[Len(s)])

IsLeap(y) == y % 4 = 0 /\ (y % 100 # 0 \/ y % 400 = 0)

LeapDaysTo(y) == (y \div 4) - (y \div 100) + (y \div 400)

DaysBeforeMonth == <<0, 31, 59, 90, 120, 151, 181, 212, 243, 273, 304, 334>>

\* the fixed form DD/Mon/YYYY:hh:mm:ss +0000
HasClfTimeForm(ts) ==
    /\ Len(ts) = 26
    /\ \A i \in {1, 2, 8, 9, 10, 11, 13, 14, 16, 17, 19, 20} : IsDigit(ts[i])
    /\ ts[3] = "/" /\ ts[7] = "/"
    /\ ts[12] = ":" /\ ts[15] = ":" /\ ts[18] = ":"
    /\ \E m \in 1..12 : MonthAbbr[m] = SubSeq(ts, 4, 6)
    /\ SubSeq(ts, 21, 26) = <<" ", "+", "0", "0", "0", "0">>
    /\ Num(SubSeq(ts, 1, 2)) \in 1..31
    /\ Num(SubSeq(ts, 13, 14)) \in 0..23
    /\ Num(SubSeq(ts, 16, 17)) \in 0..59
    /\ Num(SubSeq(ts, 19, 20)) \in 0..59

\* the epoch second a timestamp of that form denotes, read as UTC
DecodeUtc(ts) ==
    LET d  == Num(SubSeq(ts, 1, 2))
        m  == CHOOSE k \in 1..12 : MonthAbbr[k] = SubSeq(ts, 4, 6)
        y  == Num(SubSeq(ts, 8, 11))
        days == 365 * (y - 1970) + LeapDaysTo(y - 1) - LeapDaysTo(1969)
                + DaysBeforeMonth[m] + (IF m > 2 /\ IsLeap(y) THEN 1 ELSE 0)
                + d - 1
    IN  days * 86400 + Num(SubSeq(ts, 13, 14)) * 3600
        + Num(SubSeq(ts, 16, 17)) * 60 + Num(SubSeq(ts, 19, 20))

\* C5: at every instant log_date_time_string returns a string of the form
\* 'DD/Mon/YYYY:hh:mm:ss +0000' that, decoded as UTC, gives the second of the
\* clock at which it was generated, whatever the local time zone.
TimestampIsUtcSecond ==
    \A i \in DOMAIN events :
        events[i].ts # <<>> =>
            /\ HasClfTimeForm(events[i].ts)
            /\ DecodeUtc(events[i].ts) = events[i].sec

\* a timestamp taken east of Greenwich in the first second of 01/Mar/2000
TimestampIsUtcSecond_witness ==
    /\ tz = 19800
    /\ Len(events) = 1
    /\ events[1].sec = 951868800
    /\ events[1].ts =
         <<"0", "1", "/", "M", "a", "r", "/", "2", "0", "0", "0", ":",
           "0", "0", ":", "0", "0", ":", "0", "0", " ", "+", "0", "0", "0", "0">>

----------------------------------------------------------------------------
\* C2: with a single-threaded caller, standard output holds exactly one line
\* per logged event, in the order the events were issued, each of the form
\* '<client> - - [<timestamp>] <message>'; none is dropped, duplicated, held
\* back or reordered.
StdoutIsLinesInOrder ==
    LET lines == LinesOf(stdout)
    IN  /\ EndsAtLineBreak(stdout)
        /\ Len(lines) = Len(OkEvents)
        /\ \A k \in 1..Len(lines) :
              /\ lines[k] \o <<"\n">> = LineOf(OkEvents[k])
              /\ MatchesClf(lines[k])
        /\ \A i \in DOMAIN events :
              Finished(events[i]) /\ Matches(events[i].format, events[i].args)
                => events[i].outcome \in {"ok", "OSError"}

\* two different events were logged one after the other
StdoutIsLinesInOrder_witness ==
    /\ Len(events) = 2
    /\ IsOk(events[1]) /\ IsOk(events[2])
    /\ events[1].client # events[2].client
    /\ events[1].format # events[2].format
    /\ Len(LinesOf(stdout)) = 2

----------------------------------------------------------------------------
\* C3: a call whose template and arguments do not match fails with a
\* formatting error raised to the caller and writes nothing: sys.stdout.write
\* is not called for it and the stream holds only the lines of other events.
MismatchRaisesAndWritesNothing ==
    /\ stdout = OkText
    /\ \A i \in DOMAIN events :
          LET e == events[i]
          IN  ~Matches(e.format, e.args) =>
                /\ e.calls = <<>>
                /\ e.outcome \in {"pending", "TypeError", "ValueError",
                                   "KeyboardInterrupt", "Error"}
                /\ e.outcome = "pending" =>
                      \E w \in threads : h[w].id = i /\ h[w].pc \in {"time", "render"}
                /\ e.outcome # "pending" => \A w \in threads : h[w].id # i

\* a template of three conversions was called with two arguments after a
\* line had been written
MismatchRaisesAndWritesNothing_witness ==
    /\ Len(events) = 2
    /\ IsOk(events[1])
    /\ events[2].format = RequestFormat
    /\ events[2].args = ErrorArgs
    /\ events[2].outcome = "TypeError"
    /\ stdout = LineOf(events[1])

----------------------------------------------------------------------------
\* C10: when the write to standard output fails, log_message lets the error
\* out after one write attempt: no second call of write, no frame or buffer
\* keeping the line, and later lines do not carry the failed event's text.
WriteFailurePropagatesOnce ==
    /\ \A i \in DOMAIN events :
          events[i].outcome = "OSError" =>
              /\ events[i].calls = <<LineOf(events[i])>>
              /\ \A w \in threads : h[w].id # i
    /\ \A i \in DOMAIN events : Len(events[i].calls) <= 1
    /\ (\E i \in DOMAIN events : events[i].outcome = "OSError") =>
          /\ stdout = OkText
          /\ Len(LinesOf(stdout)) = Len(OkEvents)

\* a write failed and the next event's line was written
WriteFailurePropagatesOnce_witness ==
    /\ Len(events) = 2
    /\ events[1].outcome = "OSError"
    /\ IsOk(events[2])
    /\ stdout = LineOf(events[2])

----------------------------------------------------------------------------
\* C8: over a whole run standard output holds the access-log lines of the
\* logged events and nothing else; the startup and shutdown notices go to
\* standard error; one request followed by an interrupt leaves one line.
StdoutHoldsOnlyLogLines ==
    LET lines == LinesOf(stdout)
    IN  /\ \A k \in 1..Len(lines) :
              /\ lines[k] \notin {StartingLine, ExitingLine}
              /\ MatchesClf(lines[k])
        /\ pc = "serving" => \E k \in DOMAIN stderr : stderr[k] = StartingLine
        /\ pc = "exited" =>
              /\ stdout = OkText
              /\ Len(lines) = Len(OkEvents)
              /\ sigint <=> \E k \in DOMAIN stderr : stderr[k] = ExitingLine
              /\ ~sigint => \E k \in DOMAIN stderr : stderr[k] = StartingLine

\* the server started, logged one request and was interrupted
StdoutHoldsOnlyLogLines_witness ==
    /\ pc = "exited"
    /\ sigint
    /\ Len(events) = 1
    /\ IsOk(events[1])
    /\ Len(LinesOf(stdout)) = 1
    /\ stderr = <<StartingLine, ExitingLine>>

----------------------------------------------------------------------------
\* a line with the content of its bracketed timestamp field removed
WithoutTs(line) ==
    LET a == FirstAt(line, "[", 1)
        b == FirstAt(line, "]", a)
    IN  SubSeq(line, 1, a) \o SubSeq(line, b, Len(line))

\* C6: the same (client, template, args) logged twice gives identical lines
\* when both timestamps are read in the same clock second and lines that
\* differ only inside the brackets otherwise; what earlier calls did leaves
\* the client, separator and message part of a line as its own inputs give.
RepeatedCallsDifferOnlyInTimestamp ==
    LET lines == LinesOf(stdout)
        ok == OkEvents
    IN  /\ Len(lines) = Len(ok)
        /\ \A k \in 1..Len(lines) :
              WithoutTs(lines[k]) \o <<"\n">> =
                  ClfLine(address_string(ok[k].client), <<>>,
                          Substituted(ok[k].format, ok[k].args))
        /\ \A k, l \in 1..Len(lines) :
              /\ ok[k].client = ok[l].client
              /\ ok[k].format = ok[l].format
              /\ ok[k].args = ok[l].args
              => /\ WithoutTs(lines[k]) = WithoutTs(lines[l])
                 /\ ok[k].sec = ok[l].sec => lines[k] = lines[l]

\* the same call was logged twice across a second boundary and the two
\* lines differ
RepeatedCallsDifferOnlyInTimestamp_witness ==
    /\ Len(OkEvents) = 2
    /\ OkEvents[1].client = OkEvents[2].client
    /\ OkEvents[1].format = OkEvents[2].format
    /\ OkEvents[1].args = OkEvents[2].args
    /\ OkEvents[1].sec < OkEvents[2].sec
    /\ LinesOf(stdout)[1] # LinesOf(stdout)[2]

----------------------------------------------------------------------------
\* C7: after an interrupt arrives while the server is starting or serving
\* no handler runs on, the shutdown notice is printed once to standard
\* error, and the process ends with exit status 0; from the interrupt on no
\* event is logged and standard output does not change.
InterruptStopsServer ==
    /\ [](sigint =>
            /\ pc \in {"except", "sysexit", "finally", "exited"}
            /\ InFlight = {}
            /\ pc # "except" =>
                  /\ stderr # <<>>
                  /\ stderr[Len(stderr)] = ExitingLine
                  /\ Cardinality({k \in DOMAIN stderr : stderr[k] = ExitingLine}) = 1
            /\ exitStatus = IF pc = "exited" THEN 0 ELSE 0 - 1)
    /\ [][sigint => stdout' = stdout /\ events' = events /\ budget' = budget]_vars
    /\ (sigint ~> (pc = "exited" /\ exitStatus = 0))

\* a request in progress was interrupted and the process has exited
InterruptStopsServer_witness ==
    /\ sigint
    /\ pc = "exited"
    /\ exitStatus = 0
    /\ Len(events) = 2
    /\ IsOk(events[1])
    /\ events[2].outcome = "KeyboardInterrupt"

----------------------------------------------------------------------------
\* C9: on every way out of the try block (serve_forever returns, raises an
\* error, or is interrupted and the script exits with status 0) the
\* listening socket is closed before the process ends.
SocketClosedOnExit ==
    /\ pc = "exited" => sock = "closed" /\ exitStatus \in {0, 1}
    /\ pc = "exited" /\ pending = "Error" => exitStatus = 1
    /\ pc # "exited" => exitStatus = 0 - 1

\* the process ended on an error of serve_forever
SocketClosedOnExit_witness ==
    /\ pc = "exited"
    /\ pending = "Error"
    /\ ~sigint
    /\ sock = "closed"

----------------------------------------------------------------------------
\* C4: with concurrent handler threads each event is written by one call of
\* write that carries its whole line with the newline, so the stream is a
\* sequence of whole lines, one per written event, in any order of threads.
ConcurrentLinesAreWhole ==
    LET lines == LinesOf(stdout)
    IN  /\ \A i \in DOMAIN events :
              /\ Len(events[i].calls) <= 1
              /\ \A c \in DOMAIN events[i].calls :
                    events[i].calls[c] = LineOf(events[i])
              /\ IsOk(events[i]) => Len(events[i].calls) = 1
        /\ EndsAtLineBreak(stdout)
        /\ Len(lines) = Len(OkEvents)
        /\ \A k \in 1..Len(lines) :
              /\ MatchesClf(lines[k])
              /\ Cardinality({j \in 1..Len(lines) : lines[j] = lines[k]}) =
                 Cardinality({i \in DOMAIN events :
                     IsOk(events[i]) /\ LineOf(events[i]) = lines[k] \o <<"\n">>})

\* two threads were inside log_message together and the later call wrote
\* first
ConcurrentLinesAreWhole_witness ==
    /\ Len(events) = 2
    /\ IsOk(events[1]) /\ IsOk(events[2])
    /\ LineOf(events[1]) # LineOf(events[2])
    /\ stdout = LineOf(events[2]) \o LineOf(events[1])

====
